---- MODULE Spec2Model ----
(***************************************************************************)
(* The Home component of src/src/components/Home.js as a state machine:    *)
(* its six useState cells, the lodash debounce timer of debouncedSearch,   *)
(* the fetch calls in flight, and the remote service the calls talk to.    *)
(*                                                                         *)
(* A fetch call is a message of net.  It is "sent" until the service       *)
(* handles it (HandleRequest), which fixes the response; the response is   *)
(* applied by the awaiting handler when it arrives (Deliver); a call whose *)
(* fetch promise rejects takes the handler's catch branch (NetworkError).  *)
(* Calls in flight are handled and answered in any order.                  *)
(*                                                                         *)
(* console.error writes no component state and is not modelled.  The       *)
(* token of useAuth is fixed for the life of the component.                *)
(***************************************************************************)
EXTENDS Integers, Sequences, FiniteSets, TLC

\* ---------------------------------------------------------------- bounds
NumUsers == 2
MaxInFlight == 2
MaxFailures == 1
TickMs == 100

\* ------------------------------------------------------ program constants
\* debounce(..., 300)
wait == 300

Users == 1..NumUsers
Terms == {"x", "y"}

VARIABLES
    searchTerm,        \* useState('')
    searchResults,     \* useState([])
    friends,           \* useState([])
    recommendations,   \* useState([])
    pendingRequests,   \* useState([])
    notifications,     \* useState({ message: '', type: '' })
    timerId,           \* debounce: a trailing-edge timer is pending
    lastArgs,          \* debounce: the argument of the latest call
    elapsed,           \* debounce: ms since the latest call (capped at wait)
    net,               \* fetch calls in flight, in the order they were issued
    rel,               \* the service: the viewer's relationship to each user
    mounted,           \* the mount effect has run
    crashed,           \* a render threw: the component is gone
    failures,          \* transport and service faults injected so far
    sinceChange,       \* observer: ms since the latest input change (capped at wait)
    issued,            \* observer: the terms requested since the latest input change
    loadAll,           \* observer: how each call of fetchAllData settled
    refreshed,         \* observer: per user, the refreshes of a successful accept applied
    trip               \* observer: per user, the progress of two toggles in sequence

vars == << searchTerm, searchResults, friends, recommendations, pendingRequests,
           notifications, timerId, lastArgs, elapsed, net, rel, mounted,
           crashed, failures, sinceChange, issued, loadAll, refreshed, trip >>

\* ------------------------------------------------------------- JS values
\* An entry of a collection: its _id and, in search results, its requestStatus
\* ("" where the object has no such field).
Entry(u, s) == [_id |-> u, requestStatus |-> s]

\* A parsed response body: an array of entries, or an object with the fields
\* status and message ("" where the object has no such field).
Arr(items) == [array |-> TRUE, items |-> items, status |-> "", message |-> ""]
Obj(s, m) == [array |-> FALSE, items |-> <<>>, status |-> s, message |-> m]
ErrObj == Obj("", "server error")
NoData == Obj("", "")

Ids(v) == { v.items[k]._id : k \in 1..Len(v.items) }

RECURSIVE SeqOf(_)
SeqOf(S) ==
    IF S = {} THEN <<>>
    ELSE LET m == CHOOSE a \in S : \A b \in S : a <= b
         IN  <<m>> \o SeqOf(S \ {m})

RemoveAt(s, i) == SubSeq(s, 1, i - 1) \o SubSeq(s, i + 1, Len(s))

Min(a, b) == IF a < b THEN a ELSE b

\* ------------------------------------------------------ the remote service
RelStates == {"none", "outgoing", "incoming", "friend"}

\* username=x matches every user, username=y every user but the first
Matches(term) == IF term = "x" THEN Users ELSE Users \ {1}

StatusOf(r) ==
    IF r = "friend" THEN "friend" ELSE IF r = "outgoing" THEN "requested" ELSE "none"

ListOf(S) == LET ids == SeqOf(S) IN [k \in 1..Len(ids) |-> Entry(ids[k], "")]

listFriends == Arr(ListOf({u \in Users : rel[u] = "friend"}))
listRecommendations == Arr(ListOf({u \in Users : rel[u] = "none"}))
listPendingRequests == Arr(ListOf({u \in Users : rel[u] = "incoming"}))

searchUsers(term) ==
    LET ids == SeqOf(Matches(term))
    IN  Arr([k \in 1..Len(ids) |-> Entry(ids[k], StatusOf(rel[ids[k]]))])

\* What the service answers to a call, and the relationships it leaves.
Answer(m) ==
    CASE m.op = "friends" -> [st |-> "ok", data |-> listFriends, rel |-> rel]
      [] m.op = "recs"    -> [st |-> "ok", data |-> listRecommendations, rel |-> rel]
      [] m.op = "pending" -> [st |-> "ok", data |-> listPendingRequests, rel |-> rel]
      [] m.op = "search"  -> [st |-> "ok", data |-> searchUsers(m.term), rel |-> rel]
      [] m.op = "request" ->
            IF rel[m.uid] = "none"
            THEN [st |-> "ok", data |-> Obj("requested", "Friend request sent"),
                  rel |-> [rel EXCEPT ![m.uid] = "outgoing"]]
            ELSE IF rel[m.uid] = "outgoing"
            THEN [st |-> "ok", data |-> Obj("cancelled", "Friend request cancelled"),
                  rel |-> [rel EXCEPT ![m.uid] = "none"]]
            ELSE [st |-> "http", data |-> ErrObj, rel |-> rel]
      [] m.op = "accept" ->
            IF rel[m.uid] = "incoming"
            THEN [st |-> "ok", data |-> NoData, rel |-> [rel EXCEPT ![m.uid] = "friend"]]
            ELSE [st |-> "http", data |-> ErrObj, rel |-> rel]
      [] m.op = "unfriend" ->
            IF rel[m.uid] = "friend"
            THEN [st |-> "ok", data |-> NoData, rel |-> [rel EXCEPT ![m.uid] = "none"]]
            ELSE [st |-> "http", data |-> ErrObj, rel |-> rel]

\* ------------------------------------------------------------ fetch calls
\* st: "sent", then the response: "ok" (2xx, JSON body), "http" (non-2xx, JSON
\* body with a message), "bad" (the body is not JSON: response.json() rejects).
\* cont: the await chain that resumes when the call settles.
\* stale and by are observers: the response of a later-issued call of the same
\* operation (search, listFriends) has been applied; the
\* user whose successful accept issued this refresh (0: none).
Call(op, uid, term, cont) ==
    [op |-> op, uid |-> uid, term |-> term, st |-> "sent", data |-> NoData, cont |-> cont,
     stale |-> FALSE, by |-> 0]

\* A gesture or the timer issues a call only while fewer than MaxInFlight calls
\* are in flight; a handler that resumes always issues its calls.
Room == Len(net) < MaxInFlight

\* trip, per user: stage 1 and 3, the first and the second toggle call of a
\* sequence is in flight; 2 and 4, it has succeeded.  The sequence starts with a
\* call issued while the user's status in searchResults is none and no other
\* toggle call for the user is in flight; synced: the service held no outgoing
\* request to the user at that moment.  It ends with a failed or an overlapping
\* call and when searchResults are replaced.
Idle == [stage |-> 0, synced |-> FALSE]

\* ------------------------------------------------------------------ Init
Init ==
    /\ searchTerm = ""
    /\ searchResults = Arr(<<>>)
    /\ friends = Arr(<<>>)
    /\ recommendations = Arr(<<>>)
    /\ pendingRequests = Arr(<<>>)
    /\ notifications = [message |-> "", type |-> ""]
    /\ timerId = FALSE
    /\ lastArgs = ""
    /\ elapsed = 0
    /\ net = <<>>
    /\ rel \in [Users -> RelStates]
    /\ mounted = FALSE
    /\ crashed = FALSE
    /\ failures = 0
    /\ sinceChange = 0
    /\ issued = << >>
    /\ loadAll = [friends |-> "", recs |-> "", pending |-> ""]
    /\ refreshed = [u \in Users |-> {}]
    /\ trip = [u \in Users |-> Idle]

search == << searchTerm, timerId, lastArgs, elapsed, sinceChange, issued >>
lists == << friends, recommendations, pendingRequests >>
observers == << loadAll, refreshed, trip >>

\* --------------------------------------------------- the mount effect
\* useEffect: fetchAllData() starts with fetchFriends() and awaits it.
fetchAllData ==
    /\ ~mounted /\ ~crashed
    /\ mounted' = TRUE
    /\ net' = Append(net, Call("friends", 0, "", "loadAll"))
    /\ UNCHANGED << search, searchResults, lists, notifications, rel, crashed, failures,
                    observers >>

\* ------------------------------------------------------------- search
\* lodash debounce, trailing edge: a call records its argument and restarts the
\* quiet period; the timer invokes the function with the latest argument once
\* `wait` ms have passed since the latest call.
\* debounce that keeps a pending timer running instead of restarting it
debounced_keepsTimer(term) ==
    /\ lastArgs' = term
    /\ elapsed' = IF timerId THEN elapsed ELSE 0
    /\ timerId' = TRUE

debounced(term) ==
    /\ lastArgs' = term
    /\ elapsed' = 0
    /\ timerId' = TRUE

\* an input change that sends the empty term through the debounce as well
handleSearchChange_debouncesEmpty(term) ==
    /\ mounted /\ ~crashed
    /\ term # searchTerm
    /\ searchTerm' = term
    /\ debounced(term) /\ UNCHANGED << searchResults, trip >>
    /\ sinceChange' = 0
    /\ issued' = << >>
    /\ UNCHANGED << lists, notifications, net, rel, mounted, crashed, failures,
                    loadAll, refreshed >>

handleSearchChange(term) ==
    /\ mounted /\ ~crashed
    /\ term # searchTerm
    /\ searchTerm' = term
    /\ IF term # ""
       THEN debounced(term) /\ UNCHANGED << searchResults, trip >>
       ELSE /\ searchResults' = Arr(<< >>)
            /\ trip' = [u \in Users |-> Idle]
            /\ UNCHANGED << timerId, lastArgs, elapsed >>
    /\ sinceChange' = 0
    /\ issued' = << >>
    /\ UNCHANGED << lists, notifications, net, rel, mounted, crashed, failures,
                    loadAll, refreshed >>

\* TickMs pass while the timer is pending.
Tick ==
    /\ ~crashed
    /\ timerId /\ elapsed < wait
    /\ elapsed' = Min(elapsed + TickMs, wait)
    /\ sinceChange' = Min(sinceChange + TickMs, wait)
    /\ UNCHANGED << searchTerm, timerId, lastArgs, issued, searchResults, lists,
                    notifications, net, rel, mounted, crashed, failures, observers >>

\* The timer is due: the debounced function runs and issues the search.
timerExpired ==
    /\ ~crashed
    /\ timerId /\ elapsed >= wait
    /\ Room
    /\ timerId' = FALSE
    /\ lastArgs' = ""
    /\ elapsed' = 0
    /\ net' = Append(net, Call("search", 0, lastArgs, ""))
    /\ issued' = IF Len(issued) < 2 THEN Append(issued, lastArgs) ELSE issued
    /\ UNCHANGED << searchTerm, sinceChange, searchResults, lists, notifications, rel,
                    mounted, crashed, failures, observers >>

\* -------------------------------------------------------- the buttons
StatusIn(results, userId) ==
    IF \E k \in 1..Len(results.items) : results.items[k]._id = userId
    THEN LET k == CHOOSE k \in 1..Len(results.items) : results.items[k]._id = userId
         IN  results.items[k].requestStatus
    ELSE "absent"

InFlight(op, userId) == \E k \in 1..Len(net) : net[k].op = op /\ net[k].uid = userId

sendFriendRequest(userId) ==
    /\ Room
    /\ net' = Append(net, Call("request", userId, "", ""))
    /\ trip' = [trip EXCEPT ![userId] =
                  IF InFlight("request", userId) THEN Idle
                  ELSE IF @.stage = 2 THEN [@ EXCEPT !.stage = 3]
                  ELSE IF StatusIn(searchResults, userId) = "none"
                  THEN [stage |-> 1, synced |-> rel[userId] = "none"]
                  ELSE Idle]
    /\ UNCHANGED << search, searchResults, lists, notifications, rel, mounted, crashed,
                    failures, loadAll, refreshed >>

\* Add Friend / Cancel Request of a search result
ClickSearchResult(userId) ==
    /\ mounted /\ ~crashed
    /\ StatusIn(searchResults, userId) \in {"none", "requested"}
    /\ sendFriendRequest(userId)

\* Add Friend of a recommendation
ClickRecommendation(userId) ==
    /\ mounted /\ ~crashed
    /\ userId \in Ids(recommendations)
    /\ sendFriendRequest(userId)

acceptFriendRequest(userId) ==
    /\ mounted /\ ~crashed
    /\ userId \in Ids(pendingRequests)
    /\ Room
    /\ net' = Append(net, Call("accept", userId, "", ""))
    /\ UNCHANGED << search, searchResults, lists, notifications, rel, mounted, crashed,
                    failures, observers >>

unfriend(userId) ==
    /\ mounted /\ ~crashed
    /\ userId \in Ids(friends)
    /\ Room
    /\ net' = Append(net, Call("unfriend", userId, "", ""))
    /\ UNCHANGED << search, searchResults, lists, notifications, rel, mounted, crashed,
                    failures, observers >>

\* ------------------------------------------------- the service at work
HandleRequest(i) ==
    /\ ~crashed
    /\ net[i].st = "sent"
    /\ LET a == Answer(net[i])
       IN  /\ net' = [net EXCEPT ![i].st = a.st, ![i].data = a.data]
           /\ rel' = a.rel
    /\ UNCHANGED << search, searchResults, lists, notifications, mounted, crashed,
                    failures, observers >>

\* A fault on the way: a non-2xx answer with a message, or a body that is not JSON.
ServiceFault(i) ==
    /\ ~crashed
    /\ net[i].st = "sent"
    /\ failures < MaxFailures
    /\ failures' = failures + 1
    /\ \E st \in {"http", "bad"} :
          net' = [net EXCEPT ![i].st = st, ![i].data = ErrObj]
    /\ UNCHANGED << search, searchResults, lists, notifications, rel, mounted, crashed,
                    observers >>

\* ------------------------------------------- the handlers, resumed
\* o is how the awaited fetch settled: the response's st, or "neterr" when the
\* fetch promise rejected.  A handler that reads response.json() lands in its
\* catch branch on "bad" as on "neterr".
Thrown(o) == o \in {"bad", "neterr"}

Settled(i, o) ==
    IF net[i].cont = "loadAll"
    THEN loadAll' = [loadAll EXCEPT ![net[i].op] = o]
    ELSE UNCHANGED loadAll

Refreshed(i, o) ==
    IF net[i].by # 0 /\ o = "ok"
    THEN refreshed' = [refreshed EXCEPT ![net[i].by] = @ \cup {net[i].op}]
    ELSE UNCHANGED refreshed

\* The calls of call i's operation issued before it, marked: the response of a
\* later-issued call has been applied.
Outdated(calls, i) ==
    [k \in 1..Len(calls) |->
        IF k < i /\ calls[k].op = calls[i].op THEN [calls[k] EXCEPT !.stale = TRUE]
        ELSE calls[k]]

\* friends.map and recommendations.map throw in render on a value that is no array
fetchFriends(i, o) ==
    /\ net[i].op = "friends"
    /\ IF Thrown(o)
       THEN UNCHANGED << friends, crashed >>
       ELSE friends' = net[i].data /\ crashed' = ~net[i].data.array
    /\ net' = RemoveAt(IF Thrown(o) THEN net ELSE Outdated(net, i), i) \o
              (IF net[i].cont = "loadAll"
               THEN << Call("recs", 0, "", "loadAll") >> ELSE << >>)
    /\ Settled(i, o) /\ Refreshed(i, o)
    /\ UNCHANGED << search, searchResults, recommendations, pendingRequests,
                    notifications, mounted, trip >>

fetchRecommendations(i, o) ==
    /\ net[i].op = "recs"
    /\ IF Thrown(o)
       THEN UNCHANGED << recommendations, crashed >>
       ELSE recommendations' = net[i].data /\ crashed' = ~net[i].data.array
    /\ net' = RemoveAt(net, i) \o
              (IF net[i].cont = "loadAll"
               THEN << Call("pending", 0, "", "loadAll") >> ELSE << >>)
    /\ Settled(i, o)
    /\ UNCHANGED << search, searchResults, friends, pendingRequests, notifications,
                    mounted, refreshed, trip >>

\* pendingRequests.length > 0 is false of a value that is no array: nothing renders
fetchPendingRequests(i, o) ==
    /\ net[i].op = "pending"
    /\ IF Thrown(o)
       THEN UNCHANGED pendingRequests
       ELSE pendingRequests' = net[i].data
    /\ net' = RemoveAt(net, i)
    /\ Settled(i, o) /\ Refreshed(i, o)
    /\ UNCHANGED << search, searchResults, friends, recommendations, notifications,
                    mounted, crashed, trip >>


debouncedSearch(i, o) ==
    /\ net[i].op = "search"
    /\ IF Thrown(o)
       THEN /\ net' = RemoveAt(net, i)
            /\ UNCHANGED << searchResults, trip >>
       ELSE /\ searchResults' = net[i].data
            /\ net' = RemoveAt(Outdated(net, i), i)
            /\ trip' = [u \in Users |-> Idle]
    /\ UNCHANGED << search, lists, notifications, mounted, crashed, loadAll, refreshed >>

\* a patch that gives every entry the status the service reports for userId
patchStatus_everyEntry(prevResults, userId, data) ==
    Arr([k \in 1..Len(prevResults.items) |->
            [prevResults.items[k] EXCEPT
                !.requestStatus = IF data.status = "requested"
                                  THEN "requested" ELSE "none"]])

\* a patch that marks the entry requested whatever the service reports
patchStatus_alwaysRequested(prevResults, userId, data) ==
    Arr([k \in 1..Len(prevResults.items) |->
            IF prevResults.items[k]._id = userId
            THEN [prevResults.items[k] EXCEPT !.requestStatus = "requested"]
            ELSE prevResults.items[k]])

\* prevResults.map(...): the entries of userId get the status the service reports
patchStatus(prevResults, userId, data) ==
    Arr([k \in 1..Len(prevResults.items) |->
            IF prevResults.items[k]._id = userId
            THEN [prevResults.items[k] EXCEPT
                    !.requestStatus = IF data.status = "requested"
                                      THEN "requested" ELSE "none"]
            ELSE prevResults.items[k]])

\* prevResults.map of the functional update throws on a value that is no array
sendFriendRequestDone(i, o) ==
    /\ net[i].op = "request"
    /\ IF Thrown(o)
       THEN /\ notifications' = [message |-> "Error managing friend request",
                                 type |-> "error"]
            /\ net' = RemoveAt(net, i)
            /\ UNCHANGED << searchResults, crashed >>
       ELSE /\ notifications' =
                  [message |-> net[i].data.message,
                   type |-> IF net[i].data.status = "requested" THEN "success" ELSE "info"]
            /\ IF searchResults.array
               THEN searchResults' = patchStatus(searchResults, net[i].uid, net[i].data)
                    /\ UNCHANGED crashed
               ELSE crashed' = TRUE /\ UNCHANGED searchResults
            /\ net' = RemoveAt(net, i) \o << Call("recs", 0, "", "") >>
    /\ trip' = [trip EXCEPT ![net[i].uid] =
                  IF o = "ok" /\ @.stage \in {1, 3}
                  THEN [@ EXCEPT !.stage = @ + 1] ELSE Idle]
    /\ UNCHANGED << search, lists, mounted, loadAll, refreshed >>

\* accept and unfriend await the fetch alone: any response resumes the try block
acceptFriendRequestDone(i, o) ==
    /\ net[i].op = "accept"
    /\ net' = RemoveAt(net, i) \o
              (IF o = "neterr" THEN << >>
               ELSE LET by == IF o = "ok" THEN net[i].uid ELSE 0
                    IN  << [Call("pending", 0, "", "") EXCEPT !.by = by],
                           [Call("friends", 0, "", "") EXCEPT !.by = by] >>)
    /\ refreshed' = IF o = "ok" THEN [refreshed EXCEPT ![net[i].uid] = {}] ELSE refreshed
    /\ UNCHANGED << search, searchResults, lists, notifications, mounted, crashed,
                    loadAll, trip >>

unfriendDone(i, o) ==
    /\ net[i].op = "unfriend"
    /\ net' = RemoveAt(net, i) \o
              (IF o = "neterr" THEN << >> ELSE << Call("friends", 0, "", "") >>)
    /\ UNCHANGED << search, searchResults, lists, notifications, mounted, crashed,
                    observers >>

Resume(i, o) ==
    \/ fetchFriends(i, o)
    \/ fetchRecommendations(i, o)
    \/ fetchPendingRequests(i, o)
    \/ debouncedSearch(i, o)
    \/ sendFriendRequestDone(i, o)
    \/ acceptFriendRequestDone(i, o)
    \/ unfriendDone(i, o)

\* The response arrives.
Deliver(i) ==
    /\ ~crashed
    /\ net[i].st # "sent"
    /\ Resume(i, net[i].st)
    /\ UNCHANGED << rel, failures >>

\* The fetch promise rejects: the request or the response was lost.
NetworkError(i) ==
    /\ ~crashed
    /\ failures < MaxFailures
    /\ failures' = failures + 1
    /\ Resume(i, "neterr")
    /\ UNCHANGED rel

\* ------------------------------------------------------ specifications
\* The component with every gesture.  The three sessions after it are the same
\* component, service and network with the user keeping to some of the
\* gestures; the handlers of the other gestures leave the state a session
\* reads unchanged.
Next ==
    \/ fetchAllData
    \/ \E term \in Terms \cup {""} : handleSearchChange(term)
    \/ Tick
    \/ timerExpired
    \/ \E u \in Users : ClickSearchResult(u)
    \/ \E u \in Users : ClickRecommendation(u)
    \/ \E u \in Users : acceptFriendRequest(u)
    \/ \E u \in Users : unfriend(u)
    \/ \E i \in 1..Len(net) : HandleRequest(i)
    \/ \E i \in 1..Len(net) : ServiceFault(i)
    \/ \E i \in 1..Len(net) : Deliver(i)
    \/ \E i \in 1..Len(net) : NetworkError(i)

Spec == Init /\ [][Next]_vars

\* A session in which the user only types into the search box.
NextDebounce ==
    \/ fetchAllData
    \/ \E term \in Terms \cup {""} : handleSearchChange(term)
    \/ Tick
    \/ timerExpired
    \/ \E i \in 1..Len(net) : HandleRequest(i)
    \/ \E i \in 1..Len(net) : ServiceFault(i)
    \/ \E i \in 1..Len(net) : Deliver(i)
    \/ \E i \in 1..Len(net) : NetworkError(i)

SpecDebounce == Init /\ [][NextDebounce]_vars

\* A session in which the user types "x" into the search box and uses the
\* Add Friend and Cancel Request buttons.
NextToggle ==
    \/ fetchAllData
    \/ handleSearchChange("x")
    \/ Tick
    \/ timerExpired
    \/ \E u \in Users : ClickSearchResult(u)
    \/ \E u \in Users : ClickRecommendation(u)
    \/ \E i \in 1..Len(net) : HandleRequest(i)
    \/ \E i \in 1..Len(net) : ServiceFault(i)
    \/ \E i \in 1..Len(net) : Deliver(i)
    \/ \E i \in 1..Len(net) : NetworkError(i)

SpecToggle == Init /\ [][NextToggle]_vars

\* A session in which the user only uses the Accept and Unfriend buttons.
NextFriends ==
    \/ fetchAllData
    \/ \E u \in Users : acceptFriendRequest(u)
    \/ \E u \in Users : unfriend(u)
    \/ \E i \in 1..Len(net) : HandleRequest(i)
    \/ \E i \in 1..Len(net) : ServiceFault(i)
    \/ \E i \in 1..Len(net) : Deliver(i)
    \/ \E i \in 1..Len(net) : NetworkError(i)

SpecFriends == Init /\ [][NextFriends]_vars

\* A session in which the user only uses the Add Friend button of the
\* recommendations.
NextRecommend ==
    \/ fetchAllData
    \/ \E u \in Users : ClickRecommendation(u)
    \/ \E i \in 1..Len(net) : HandleRequest(i)
    \/ \E i \in 1..Len(net) : ServiceFault(i)
    \/ \E i \in 1..Len(net) : Deliver(i)
    \/ \E i \in 1..Len(net) : NetworkError(i)

SpecRecommend == Init /\ [][NextRecommend]_vars

\* -------------------------------------------------------------- claims
\* Call i settles as a failure: a non-2xx response, a body that is not JSON, or
\* a rejected fetch.
Fails(i) ==
    \/ net[i].st \in {"http", "bad"} /\ Deliver(i)
    \/ NetworkError(i)

Failed == {"http", "bad", "neterr"}

\* C1: the response of a search that a later-issued search has superseded, and
\* that arrives after the later search's response was applied, leaves the
\* displayed searchResults as they are.
C1_StaleResponseRejected ==
    [][\A i \in 1..Len(net) :
          (net[i].op = "search" /\ net[i].stale /\ Deliver(i))
              => searchResults' = searchResults]_vars

\* C2: while the search term is non-empty, a search request has been issued
\* since the latest change only if 300ms have passed since that change, and
\* then exactly one has been issued, carrying the term of the latest change.
C2_Debounce ==
    (searchTerm # "" /\ issued # << >>)
        => (sinceChange >= wait /\ issued = << searchTerm >>)

C2_Witness ==
    /\ searchTerm = "y"
    /\ issued = << "y" >>
    /\ sinceChange >= wait
    /\ \E k \in 1..Len(net) : net[k].op = "search" /\ net[k].term = "y"

\* C3: whenever the search term is empty, the displayed searchResults are empty
\* and no debounce timer of a superseded term is pending.
C3_IdleOnEmptyTerm ==
    searchTerm = "" => (searchResults.items = << >> /\ ~timerId)

\* C4: every user id is in at most one of: friends, the searchResults entries
\* whose status is requested, pendingRequests.
C4_RelationshipExclusivity ==
    \A u \in Users :
        Cardinality({c \in {"friends", "requested", "pending"} :
                        \/ c = "friends" /\ u \in Ids(friends)
                        \/ c = "requested" /\ StatusIn(searchResults, u) = "requested"
                        \/ c = "pending" /\ u \in Ids(pendingRequests)}) <= 1

\* C5: a toggle call that fails leaves the status of every entry of
\* searchResults as it was and puts a message of kind error into the
\* notification slot.
C5_RequestOrCancelFailure ==
    [][\A i \in 1..Len(net) :
          (net[i].op = "request" /\ Fails(i))
              => /\ searchResults'.items = searchResults.items
                 /\ notifications'.type = "error"]_vars

\* C6: once loadAll is through with listRecommendations failed and listFriends
\* and listPendingRequests succeeded, friends and pendingRequests hold the
\* fetched values, recommendations is still empty, and an error notification
\* has been emitted.
C6_LoadAllFailureIsolation ==
    (loadAll.friends = "ok" /\ loadAll.pending = "ok" /\ loadAll.recs \in Failed)
        => /\ friends = listFriends
           /\ pendingRequests = listPendingRequests
           /\ recommendations = Arr(<< >>)
           /\ notifications.type = "error"

\* C7: an accept or unfriend call that fails leaves pendingRequests and friends
\* as they were and puts a message of kind error into the notification slot.
C7_AcceptUnfriendFailure ==
    [][\A i \in 1..Len(net) :
          (net[i].op \in {"accept", "unfriend"} /\ Fails(i))
              => /\ pendingRequests' = pendingRequests
                 /\ friends' = friends
                 /\ ~crashed'
                 /\ notifications'.type = "error"]_vars

\* C8: once accept(userId) has succeeded and both refreshes it issued have been
\* applied, userId (still a friend at the service) is absent from
\* pendingRequests and present in friends.
C8_AcceptThenList ==
    \A u \in Users :
        (refreshed[u] = {"pending", "friends"} /\ rel[u] = "friend")
            => (u \notin Ids(pendingRequests) /\ u \in Ids(friends))

\* C9, as claimed: of two toggle calls for a user in sequence, both
\* succeeding, the first issued while the user's status in searchResults is
\* none: the first leaves the status requested and the second leaves it none.
C9_ToggleRoundTrip ==
    \A u \in Users :
        /\ trip[u].stage = 2 => StatusIn(searchResults, u) = "requested"
        /\ trip[u].stage = 4 => StatusIn(searchResults, u) = "none"

\* C9, amended: the same, of a sequence that starts while the service holds no
\* outgoing request to the user.
C9_ToggleRoundTripSynced ==
    \A u \in Users :
        trip[u].synced =>
            /\ trip[u].stage = 2 => StatusIn(searchResults, u) = "requested"
            /\ trip[u].stage = 4 => StatusIn(searchResults, u) = "none"

C9_Witness ==
    \E u \in Users :
        /\ trip[u] = [stage |-> 4, synced |-> TRUE]
        /\ StatusIn(searchResults, u) = "none"
        /\ rel[u] = "none"

\* C10: a search request that fails leaves the displayed searchResults (the
\* entries rendered) as they were.
C10_SearchFailureKeepsResults ==
    [][\A i \in 1..Len(net) :
          (net[i].op = "search" /\ Fails(i))
              => searchResults'.items = searchResults.items]_vars

\* The calls of the three actions that change a relationship.
Mutating == {"request", "accept", "unfriend"}

\* C11: when a toggle, accept or unfriend call completes with a success
\* response, the notification slot holds the outcome of that call, the most
\* recently completed action: a message of kind success or info, never the
\* empty slot and never the outcome of an earlier action.  (What a failed call
\* leaves in the slot is the subject of C5 and C7.)
C11_NotificationLatestWins ==
    [][\A i \in 1..Len(net) :
          (net[i].op \in Mutating /\ net[i].st = "ok" /\ Deliver(i))
              => /\ notifications'.type \in {"success", "info"}
                 /\ notifications'.message # ""
                 /\ net[i].op = "request"
                       => notifications'.message = net[i].data.message]_vars

\* C12: loadAll issues its three calls without one waiting for another: once
\* the mount effect has run, each of listFriends, listRecommendations and
\* listPendingRequests is in flight or has settled, whatever has become of the
\* other two.
C12_LoadAllIndependence ==
    mounted =>
        \A op \in {"friends", "recs", "pending"} :
            \/ loadAll[op] # ""
            \/ \E k \in 1..Len(net) : net[k].op = op /\ net[k].cont = "loadAll"

\* C13: the input change that sets the search term to the empty string leaves
\* the displayed searchResults empty in the state right after that step, with
\* no wait for the debounce timer or for a response.
C13_EmptyTermClearStep ==
    [][(searchTerm # "" /\ searchTerm' = "") => searchResults' = Arr(<< >>)]_vars

\* The term has just been cleared over results a search had put on display
\* (its response made an earlier search stale), and that earlier search is
\* still in flight.
C13_Witness ==
    /\ searchTerm = "" /\ sinceChange = 0
    /\ searchResults = Arr(<< >>)
    /\ failures = 0
    /\ \E k \in 1..Len(net) : net[k].op = "search" /\ net[k].stale

\* C14: a toggle, accept or unfriend changes none of searchResults, friends,
\* pendingRequests and recommendations in the step that issues its call, and
\* none in the step in which the call settles as a failure: what it changes,
\* it changes after a success response only.
C14_NoSpeculativeMutation ==
    [][/\ (\E u \in Users : \/ ClickSearchResult(u) \/ ClickRecommendation(u)
                            \/ acceptFriendRequest(u) \/ unfriend(u))
            => (searchResults' = searchResults /\ lists' = lists)
       /\ \A i \in 1..Len(net) :
             (net[i].op \in Mutating /\ Fails(i))
                 => (searchResults'.items = searchResults.items /\ lists' = lists)]_vars

\* C15: the step that applies the success response of a toggle call for userId
\* changes in searchResults only the status of the entries whose _id is
\* userId: the entries are the same in number and order, every other entry is
\* as it was, and friends and pendingRequests are not written.
C15_PatchByIdentity ==
    [][\A i \in 1..Len(net) :
          (net[i].op = "request" /\ net[i].st = "ok" /\ Deliver(i))
              => /\ searchResults'.array = searchResults.array
                 /\ Len(searchResults'.items) = Len(searchResults.items)
                 /\ \A k \in 1..Len(searchResults.items) :
                       /\ searchResults'.items[k]._id = searchResults.items[k]._id
                       /\ searchResults.items[k]._id # net[i].uid
                             => searchResults'.items[k] = searchResults.items[k]
                 /\ friends' = friends
                 /\ pendingRequests' = pendingRequests]_vars

\* A toggle for u has just succeeded: u's entry is requested, next to an
\* entry of another user that is still none.
C15_Witness ==
    \E u \in Users :
        /\ trip[u].stage = 2
        /\ notifications.type = "success"
        /\ StatusIn(searchResults, u) = "requested"
        /\ \E v \in Users \ {u} : StatusIn(searchResults, v) = "none"

\* The listRecommendations calls in flight that are refreshes (not loadAll's).
RecsRefreshes(calls) ==
    Cardinality({k \in 1..Len(calls) : calls[k].op = "recs" /\ calls[k].cont = ""})

\* C16: the step that applies the success response of a toggle call issues
\* exactly one listRecommendations call, and the step in which a toggle call
\* settles as a failure issues none.
C16_RecommendationsRefresh ==
    [][\A i \in 1..Len(net) :
          /\ (net[i].op = "request" /\ net[i].st = "ok" /\ Deliver(i))
                => RecsRefreshes(net') = RecsRefreshes(net) + 1
          /\ (net[i].op = "request" /\ Fails(i))
                => RecsRefreshes(net') = RecsRefreshes(net)]_vars

\* C17: an older refresh never overwrites a newer one: the response of a
\* listFriends call that arrives after the response of a later-issued
\* listFriends call was applied, and that leaves no listFriends call in flight,
\* leaves friends as they are: the value of the most recently issued call.
C17_RefreshConvergence ==
    [][\A i \in 1..Len(net) :
          (/\ net[i].op = "friends" /\ net[i].stale /\ Deliver(i)
           /\ \A k \in 1..Len(net) : net[k].op = "friends" => k = i)
              => friends' = friends]_vars

\* C18: when the success response of a toggle call for a user of searchResults
\* is applied and no other toggle call for that user is in flight, the status
\* shown for the user is requested exactly if the service holds an outgoing
\* request to that user, whatever the order in which earlier responses arrived.
C18_ToggleConvergence ==
    [][\A i \in 1..Len(net) :
          (/\ net[i].op = "request" /\ net[i].st = "ok" /\ Deliver(i)
           /\ net[i].uid \in Ids(searchResults)
           /\ \A k \in 1..Len(net) :
                 (net[k].op = "request" /\ net[k].uid = net[i].uid) => k = i)
              => (StatusIn(searchResults', net[i].uid) = "requested"
                     <=> rel[net[i].uid] = "outgoing")]_vars

\* C19: in a session whose only toggle calls come from the Add Friend button
\* of a recommendation, the service never handles one of them by cancelling
\* an outgoing friend request.
C19_AddFriendNeverCancels ==
    [][\A i \in 1..Len(net) :
          (net[i].op = "request" /\ HandleRequest(i))
              => ~(rel[net[i].uid] = "outgoing" /\ rel'[net[i].uid] = "none")]_vars

====
